---- MODULE Spec2Model ----
(***************************************************************************)
(* Model of lib/charms/ip_router_interface/v0/ip_router_interface.py:      *)
(* the network validator (_validate_network), the provider's fold over     *)
(* the requirers' databags (RouterProvides.get_routing_table), its         *)
(* publication (_sync_routing_tables) and the requirer's request_network   *)
(* and get_routing_table.                                                  *)
(*                                                                         *)
(* A Python dict is an insertion-ordered mapping: it is modelled as a      *)
(* sequence of entries [name, net] with pairwise distinct names.           *)
(* A Network dict is a record whose field "keys" is the set of keys the    *)
(* dict carries; the fields of absent keys hold fixed defaults.            *)
(* A databag value (the string under "networks") is a record [kind, val]:  *)
(* "absent" (no such key), "garbage" (not JSON), "scalar" (JSON that is    *)
(* not an object) or "json" (a JSON object, val is the decoded mapping).   *)
(***************************************************************************)
EXTENDS Integers, Sequences, FiniteSets, TLC

\* ---------------------------------------------------------------- bounds
\* Width of an address in bits (IPv4 has 32).
AddrBits == 3
\* Largest number of routes of a candidate given to the validator alone
\* (against the empty table; against the other tables it has at most one).
MaxRoutes == 2

\* the requirer applications and the network names they choose from
Peers == {"p1", "p2"}
Names == {"a", "b"}
\* the name of the i-th entry of a table given to the validator alone
NameOf(i) == <<"a", "b", "c", "d">>[i]
Addrs == 0..(2^AddrBits - 1)

\* ----------------------------------------------------- ipaddress module
HostCount(pfx) == 2^(AddrBits - pfx.len)
\* IPv4Network(s) is strict: it raises ValueError when host bits are set.
IPv4NetworkOk(pfx) == pfx.addr % HostCount(pfx) = 0
network_address(pfx) == pfx.addr
broadcast_address(pfx) == pfx.addr + HostCount(pfx) - 1
\* address in network
AddrInNetwork(a, pfx) == network_address(pfx) <= a /\ a <= broadcast_address(pfx)
\* a.subnet_of(b)
subnet_of(a, b) ==
    /\ network_address(b) <= network_address(a)
    /\ broadcast_address(b) >= broadcast_address(a)
\* a.supernet_of(b)
supernet_of(a, b) == subnet_of(b, a)

\* ------------------------------------------------------------ dict model
NoPrefix == [addr |-> 0, len |-> 0]
Net(keys, network, gateway, routes) ==
    [keys |-> keys, network |-> network, gateway |-> gateway, routes |-> routes]
Route(keys, gateway) == [keys |-> keys, gateway |-> gateway]
Entry(name, net) == [name |-> name, net |-> net]

DictKeys(d) == {d[i].name : i \in 1..Len(d)}
DictValues(d) == {d[i].net : i \in 1..Len(d)}
DictGet(d, k) == (CHOOSE i \in 1..Len(d) : d[i].name = k)
\* d.pop(k, None)
DictPop(d, k) == SelectSeq(d, LAMBDA e : e.name # k)
\* d[k] = v : replaces in place when k is a key, appends otherwise
DictSet(d, k, v) ==
    IF k \in DictKeys(d)
    THEN [i \in 1..Len(d) |-> IF d[i].name = k THEN Entry(k, v) ELSE d[i]]
    ELSE Append(d, Entry(k, v))
\* Python's dict equality ignores the order of the keys
DictEq(d1, d2) == {d1[i] : i \in 1..Len(d1)} = {d2[i] : i \in 1..Len(d2)}

\* --------------------------------------------------------- json encoding
Absent == [kind |-> "absent", val |-> <<>>]
Garbage == [kind |-> "garbage", val |-> <<>>]
Scalar == [kind |-> "scalar", val |-> <<>>]
json_dumps(d) == [kind |-> "json", val |-> d]
\* mutant: a missing value decodes to null instead of raising TypeError
json_loads_NoneAsNull(p) ==
    CASE p.kind = "absent" -> [exc |-> "none", isdict |-> FALSE, val |-> <<>>]
      [] p.kind = "garbage" -> [exc |-> "JSONDecodeError", isdict |-> FALSE, val |-> <<>>]
      [] p.kind = "scalar" -> [exc |-> "none", isdict |-> FALSE, val |-> <<>>]
      [] OTHER -> [exc |-> "none", isdict |-> TRUE, val |-> p.val]

\* json.loads(databag.get("networks")): TypeError on None, JSONDecodeError
\* on undecodable text, the decoded value otherwise.
json_loads(p) ==
    CASE p.kind = "absent" -> [exc |-> "TypeError", isdict |-> FALSE, val |-> <<>>]
      [] p.kind = "garbage" -> [exc |-> "JSONDecodeError", isdict |-> FALSE, val |-> <<>>]
      [] p.kind = "scalar" -> [exc |-> "none", isdict |-> FALSE, val |-> <<>>]
      [] OTHER -> [exc |-> "none", isdict |-> TRUE, val |-> p.val]

\* ------------------------------------------------------------- validator
Ok == [exc |-> "none", msg |-> ""]
Raise(exc, msg) == [exc |-> exc, msg |-> msg]

\* mutant: only the first route is looked at
ValidateRoutes_FirstOnly(routes, i, network) ==
    IF i > Len(routes) \/ i > 1 THEN Ok
    ELSE IF "gateway" \notin routes[i].keys
         THEN Raise("KeyError", "Key 'gateway' not found in route.")
    ELSE IF "destination" \notin routes[i].keys
         THEN Raise("KeyError", "Key 'destination' not found in route.")
    ELSE IF ~AddrInNetwork(routes[i].gateway, network)
         THEN Raise("ValueError", "There is no route to this destination from the network.")
    ELSE Ok

RECURSIVE ValidateRoutes(_, _, _)
ValidateRoutes(routes, i, network) ==
    IF i > Len(routes) THEN Ok
    ELSE IF "gateway" \notin routes[i].keys
         THEN Raise("KeyError", "Key 'gateway' not found in route.")
    ELSE IF "destination" \notin routes[i].keys
         THEN Raise("KeyError", "Key 'destination' not found in route.")
    ELSE IF ~AddrInNetwork(routes[i].gateway, network)
         THEN Raise("ValueError", "There is no route to this destination from the network.")
    ELSE ValidateRoutes(routes, i + 1, network)

\* mutant: only the first entry of the existing table is compared
ValidateExclusive_FirstOnly(new_subnet, existing, i) ==
    IF i > Len(existing) \/ i > 1 THEN Ok
    ELSE IF "network" \notin existing[i].net.keys
         THEN Raise("KeyError", "network")
    ELSE IF ~IPv4NetworkOk(existing[i].net.network)
         THEN Raise("ValueError", "has host bits set")
    ELSE IF \/ subnet_of(existing[i].net.network, new_subnet)
            \/ supernet_of(existing[i].net.network, new_subnet)
         THEN Raise("ValueError", "This network has been defined in a previous entry.")
    ELSE Ok

\* mutant: only one direction of the overlap test
RECURSIVE ValidateExclusive_OneWay(_, _, _)
ValidateExclusive_OneWay(new_subnet, existing, i) ==
    IF i > Len(existing) THEN Ok
    ELSE IF "network" \notin existing[i].net.keys
         THEN Raise("KeyError", "network")
    ELSE IF ~IPv4NetworkOk(existing[i].net.network)
         THEN Raise("ValueError", "has host bits set")
    ELSE IF subnet_of(existing[i].net.network, new_subnet)
         THEN Raise("ValueError", "This network has been defined in a previous entry.")
    ELSE ValidateExclusive_OneWay(new_subnet, existing, i + 1)

RECURSIVE ValidateExclusive(_, _, _)
ValidateExclusive(new_subnet, existing, i) ==
    IF i > Len(existing) THEN Ok
    ELSE IF "network" \notin existing[i].net.keys
         THEN Raise("KeyError", "network")
    ELSE IF ~IPv4NetworkOk(existing[i].net.network)
         THEN Raise("ValueError", "has host bits set")
    ELSE IF \/ subnet_of(existing[i].net.network, new_subnet)
            \/ supernet_of(existing[i].net.network, new_subnet)
         THEN Raise("ValueError", "This network has been defined in a previous entry.")
    ELSE ValidateExclusive(new_subnet, existing, i + 1)

\* The gateway containment test of the source builds a ValueError and drops
\* it: the statement has no effect.
GatewayCheck(network_request) ==
    IF ~AddrInNetwork(network_request.gateway, network_request.network)
    THEN Ok  \* ValueError("Chosen gateway not within given network.") is not raised
    ELSE Ok

\* mutant: the presence of 'network' is not tested
_validate_network_NoNetworkKey(network_request, existing_routing_table) ==
    IF "gateway" \notin network_request.keys
    THEN Raise("KeyError", "Key 'gateway' not found.")
    ELSE IF ~IPv4NetworkOk(network_request.network)
    THEN Raise("ValueError", "has host bits set")
    ELSE LET r == ValidateRoutes(
                      IF "routes" \in network_request.keys
                      THEN network_request.routes ELSE <<>>,
                      1, network_request.network)
         IN IF r.exc # "none" THEN r
            ELSE ValidateExclusive(network_request.network, existing_routing_table, 1)

_validate_network(network_request, existing_routing_table) ==
    IF "gateway" \notin network_request.keys
    THEN Raise("KeyError", "Key 'gateway' not found.")
    ELSE IF "network" \notin network_request.keys
    THEN Raise("KeyError", "Key 'network' not found.")
    ELSE IF ~IPv4NetworkOk(network_request.network)
    THEN Raise("ValueError", "has host bits set")
    ELSE IF GatewayCheck(network_request).exc # "none"
    THEN GatewayCheck(network_request)
    ELSE LET r == ValidateRoutes(
                      IF "routes" \in network_request.keys
                      THEN network_request.routes ELSE <<>>,
                      1, network_request.network)
         IN IF r.exc # "none" THEN r
            ELSE ValidateExclusive(network_request.network, existing_routing_table, 1)

\* ------------------------------------------------- RouterProvides (fold)
Returned(tbl) == [exc |-> "none", val |-> tbl]
Failed(exc) == [exc |-> exc, val |-> <<>>]

\* the loop over the network requests of one relation
RECURSIVE FoldRequests(_, _, _)
FoldRequests(network_requests, i, final_routing_table) ==
    IF i > Len(network_requests) THEN Returned(final_routing_table)
    ELSE LET new_network_name == network_requests[i].name
             new_network == network_requests[i].net
         IN IF new_network_name = "" \/ new_network.keys = {}
            THEN FoldRequests(network_requests, i + 1, final_routing_table)
            ELSE IF new_network_name \in DictKeys(final_routing_table)
            THEN Failed("RuntimeError")
            ELSE IF _validate_network(new_network, final_routing_table).exc # "none"
            THEN Failed("RuntimeError")
            ELSE FoldRequests(network_requests, i + 1,
                              DictSet(final_routing_table, new_network_name, new_network))

\* mutant: a databag that cannot be decoded ends the pass
RECURSIVE FoldRelations_NoCatch(_, _, _, _)
FoldRelations_NoCatch(router_relations, bags, j, final_routing_table) ==
    IF j > Len(router_relations) THEN Returned(final_routing_table)
    ELSE LET loaded == json_loads(bags[router_relations[j]])
         IN IF loaded.exc \in {"JSONDecodeError", "TypeError"}
            THEN Failed(loaded.exc)
            ELSE IF ~loaded.isdict
            THEN Failed("AttributeError")
            ELSE LET r == FoldRequests(loaded.val, 1, final_routing_table)
                 IN IF r.exc # "none" THEN r
                    ELSE FoldRelations_NoCatch(router_relations, bags, j + 1, r.val)

\* mutant: only the first relation is folded
FoldRelations_FirstOnly(router_relations, bags, j, final_routing_table) ==
    IF j > Len(router_relations) \/ j > 1 THEN Returned(final_routing_table)
    ELSE LET loaded == json_loads(bags[router_relations[j]])
         IN IF loaded.exc \in {"JSONDecodeError", "TypeError"}
            THEN Returned(final_routing_table)
            ELSE IF ~loaded.isdict
            THEN Failed("AttributeError")
            ELSE FoldRequests(loaded.val, 1, final_routing_table)

\* the loop over the relations
RECURSIVE FoldRelations(_, _, _, _)
FoldRelations(router_relations, bags, j, final_routing_table) ==
    IF j > Len(router_relations) THEN Returned(final_routing_table)
    ELSE LET loaded == json_loads(bags[router_relations[j]])
         IN IF loaded.exc \in {"JSONDecodeError", "TypeError"}
            THEN FoldRelations(router_relations, bags, j + 1, final_routing_table)
            ELSE IF ~loaded.isdict
            THEN Failed("AttributeError")
            ELSE LET r == FoldRequests(loaded.val, 1, final_routing_table)
                 IN IF r.exc # "none" THEN r
                    ELSE FoldRelations(router_relations, bags, j + 1, r.val)

Provides_get_routing_table(router_relations, bags) ==
    FoldRelations(router_relations, bags, 1, <<>>)

\* ------------------------------------------------- RouterRequires (read)
\* mutant: an entry is validated on its own, not against the entries read
RECURSIVE ReadEntries_Alone(_, _, _)
ReadEntries_Alone(routing_table_from_databag, i, validated_routing_table) ==
    IF i > Len(routing_table_from_databag) THEN validated_routing_table
    ELSE LET e == routing_table_from_databag[i]
         IN ReadEntries_Alone(routing_table_from_databag, i + 1,
                IF _validate_network(e.net, <<>>).exc # "none"
                THEN validated_routing_table
                ELSE DictSet(validated_routing_table, e.name, e.net))

\* the loop over the entries of one provider databag: an entry that fails
\* the validator is logged and left out
RECURSIVE ReadEntries(_, _, _)
ReadEntries(routing_table_from_databag, i, validated_routing_table) ==
    IF i > Len(routing_table_from_databag) THEN validated_routing_table
    ELSE LET e == routing_table_from_databag[i]
         IN ReadEntries(routing_table_from_databag, i + 1,
                IF _validate_network(e.net, validated_routing_table).exc # "none"
                THEN validated_routing_table
                ELSE DictSet(validated_routing_table, e.name, e.net))

RECURSIVE ReadRelations(_, _, _)
ReadRelations(slots, j, validated_routing_table) ==
    IF j > Len(slots) THEN Returned(validated_routing_table)
    ELSE IF slots[j].kind = "absent"
    THEN ReadRelations(slots, j + 1, validated_routing_table)
    ELSE LET loaded == json_loads(slots[j])
         IN IF loaded.exc = "JSONDecodeError" THEN Returned(<<>>)
            ELSE IF ~loaded.isdict THEN Failed("AttributeError")
            ELSE ReadRelations(slots, j + 1,
                               ReadEntries(loaded.val, 1, validated_routing_table))

\* slots: the provider-side databags of the requirer's relations, in order.
\* A unit that is not the leader gets None.
Requires_get_routing_table(leader, slots) ==
    IF ~leader THEN [exc |-> "none", val |-> <<>>, isnone |-> TRUE]
    ELSE [exc |-> ReadRelations(slots, 1, <<>>).exc,
          val |-> ReadRelations(slots, 1, <<>>).val,
          isnone |-> FALSE]

\* get_network: self.get_routing_table()[network_name]; subscripting None
\* is a TypeError, a missing key a KeyError.
Requires_get_network(leader, slots, network_name) ==
    LET routing_table == Requires_get_routing_table(leader, slots)
    IN IF routing_table.exc # "none"
       THEN [exc |-> routing_table.exc, val |-> Net({}, NoPrefix, 0, <<>>)]
       ELSE IF routing_table.isnone
       THEN [exc |-> "TypeError", val |-> Net({}, NoPrefix, 0, <<>>)]
       ELSE IF network_name \notin DictKeys(routing_table.val)
       THEN [exc |-> "KeyError", val |-> Net({}, NoPrefix, 0, <<>>)]
       ELSE [exc |-> "none",
             val |-> routing_table.val[DictGet(routing_table.val, network_name)].net]

\* mutant: a failure is logged and not re-raised
RECURSIVE ValidateRequested_NoRaise(_, _, _)
ValidateRequested_NoRaise(requested_networks, i, existing_routing_table) ==
    IF i > Len(requested_networks) THEN Ok
    ELSE LET v == _validate_network(requested_networks[i].net, existing_routing_table)
         IN ValidateRequested_NoRaise(requested_networks, i + 1,
                IF v.exc # "none" THEN existing_routing_table
                ELSE DictSet(existing_routing_table, requested_networks[i].name,
                             requested_networks[i].net))

\* mutant: an accepted entry of the batch is not added to the table the
\* later entries are validated against
RECURSIVE ValidateRequested_ObservedOnly(_, _, _)
ValidateRequested_ObservedOnly(requested_networks, i, existing_routing_table) ==
    IF i > Len(requested_networks) THEN Ok
    ELSE LET v == _validate_network(requested_networks[i].net, existing_routing_table)
         IN IF v.exc # "none" THEN v
            ELSE ValidateRequested_ObservedOnly(requested_networks, i + 1,
                                                existing_routing_table)

\* the validation loop of request_network: the first failure is re-raised
RECURSIVE ValidateRequested(_, _, _)
ValidateRequested(requested_networks, i, existing_routing_table) ==
    IF i > Len(requested_networks) THEN Ok
    ELSE LET v == _validate_network(requested_networks[i].net, existing_routing_table)
         IN IF v.exc # "none" THEN v
            ELSE ValidateRequested(requested_networks, i + 1,
                     DictSet(existing_routing_table, requested_networks[i].name,
                             requested_networks[i].net))

\* [existing_routing_table.pop(key, None) for key in requested_networks.keys()]
PopRequested(existing_routing_table, requested_networks) ==
    SelectSeq(existing_routing_table,
              LAMBDA e : e.name \notin DictKeys(requested_networks))

\* ------------------------------------------------------------ inputs
Low == [addr |-> 0, len |-> AddrBits - 1]
High == [addr |-> 2, len |-> AddrBits - 1]
Both == [addr |-> 0, len |-> AddrBits - 2]
Plain == {"gateway", "network"}
Routed == {"gateway", "network", "routes"}
FullRoute == {"destination", "gateway"}
\* addresses 0..1, gateway and route gateway inside
NetA == Net(Routed, Low, 0, <<Route(FullRoute, 1)>>)
\* addresses 2..3, disjoint from NetA
NetB == Net(Plain, High, 3, <<>>)
\* addresses 0..3, a supernet of NetA and of NetB, with its gateway outside
NetC == Net(Plain, Both, 4, <<>>)
\* addresses 2..3 with a route whose gateway is outside
NetD == Net(Routed, High, 2, <<Route(FullRoute, 0)>>)
NetPool == {NetA, NetB, NetC, NetD}

\* the mappings of at most n names to networks of the pool, in every order
RECURSIVE Mappings(_)
Mappings(n) ==
    IF n = 0 THEN {<<>>}
    ELSE LET shorter == Mappings(n - 1)
         IN shorter \cup
            {Append(d, Entry(k, v)) : d \in {x \in shorter : Len(x) = n - 1},
                                      k \in Names, v \in NetPool}
\* a mapping whose only name is the empty string
EmptyNamed == <<Entry("", NetB)>>
\* the batches given to request_network: a mapping has distinct names
Batches ==
    {d \in Mappings(Cardinality(Names)) : Cardinality(DictKeys(d)) = Len(d)}
        \cup {EmptyNamed}
\* what a requirer that does not use this library may leave in its databag
\* (undecodable text, JSON that is no object, an entry the validator rejects,
\* an empty name and an empty network)
RawPayloads ==
    {Garbage, Scalar,
     json_dumps(<<Entry("a", NetD)>>),
     json_dumps(<<Entry("", NetB), Entry("b", Net({}, NoPrefix, 0, <<>>))>>)}

\* ------------------------------------------------------------- state
VARIABLES
    relations,  \* the peers related to the provider, in relation order
    reqBag,     \* reqBag[p]: "networks" in the requirer's app databag
    provBag,    \* provBag[p]: "networks" in the provider's app databag
    vIn,        \* validator alone: the candidate and the existing table
    vOut,       \* validator alone: the outcome
    rIn,        \* requirer's read alone: leadership and the provider databags
    rOut        \* requirer's read alone: the outcome
vars == <<relations, reqBag, provBag, vIn, vOut, rIn, rOut>>

NoInput == [cand |-> Net({}, NoPrefix, 0, <<>>), table |-> <<>>]
Pending == [exc |-> "pending", msg |-> ""]
NoSlots == [leader |-> FALSE, slots |-> <<>>]
NotRead == [exc |-> "pending", val |-> <<>>, isnone |-> FALSE]

IsJoined(rels, p) == \E i \in 1..Len(rels) : rels[i] = p
Joined(p) == IsJoined(relations, p)

Init ==
    /\ relations = <<>>
    /\ reqBag = [p \in Peers |-> Absent]
    /\ provBag = [p \in Peers |-> Absent]
    /\ vIn = NoInput
    /\ vOut = Pending
    /\ rIn = NoSlots
    /\ rOut = NotRead

\* ------------------------------------------------------- the transport
\* a requirer application is related to the provider
Join(p) ==
    /\ ~Joined(p)
    /\ relations' = Append(relations, p)
    /\ UNCHANGED <<reqBag, provBag, vIn, vOut, rIn, rOut>>

\* the relation with p is removed together with its databags
Depart(p) ==
    /\ Joined(p)
    /\ relations' = SelectSeq(relations, LAMBDA q : q # p)
    /\ reqBag' = [reqBag EXCEPT ![p] = Absent]
    /\ provBag' = [provBag EXCEPT ![p] = Absent]
    /\ UNCHANGED <<vIn, vOut, rIn, rOut>>

\* a requirer writes its databag without request_network
RawWrite(p, payload) ==
    /\ Joined(p)
    /\ reqBag' = [reqBag EXCEPT ![p] = payload]
    /\ UNCHANGED <<relations, provBag, vIn, vOut, rIn, rOut>>

\* ------------------------------------------------------ RouterProvides
\* mutant: the table is written to the first relation only
_sync_routing_tables_FirstOnly(rels, rbags, pbags) ==
    LET routing_table == Provides_get_routing_table(rels, rbags)
    IN IF routing_table.exc # "none"
       THEN [exc |-> routing_table.exc, bags |-> pbags]
       ELSE [exc |-> "none",
             bags |-> [p \in Peers |-> IF Len(rels) > 0 /\ rels[1] = p
                                       THEN json_dumps(routing_table.val)
                                       ELSE pbags[p]]]

\* mutant: the table is written relation by relation while it is folded, so
\* a fold that fails at a later relation has written to the first
_sync_routing_tables_WriteWhileFolding(rels, rbags, pbags) ==
    LET routing_table == Provides_get_routing_table(rels, rbags)
        first == Provides_get_routing_table(SubSeq(rels, 1, 1), rbags)
    IN IF routing_table.exc # "none"
       THEN [exc |-> routing_table.exc,
             bags |-> IF Len(rels) > 0 /\ first.exc = "none"
                      THEN [pbags EXCEPT ![rels[1]] = json_dumps(first.val)]
                      ELSE pbags]
       ELSE [exc |-> "none",
             bags |-> [p \in Peers |-> IF IsJoined(rels, p)
                                       THEN json_dumps(routing_table.val)
                                       ELSE pbags[p]]]

\* mutant: the fold continues from the table published by the pass before
_sync_routing_tables_Accumulate(rels, rbags, pbags) ==
    LET prev == IF Len(rels) > 0 /\ pbags[rels[1]].kind = "json"
                THEN pbags[rels[1]].val ELSE <<>>
        routing_table == FoldRelations(rels, rbags, 1, prev)
    IN IF routing_table.exc # "none"
       THEN [exc |-> routing_table.exc, bags |-> pbags]
       ELSE [exc |-> "none",
             bags |-> [p \in Peers |-> IF IsJoined(rels, p)
                                       THEN json_dumps(routing_table.val)
                                       ELSE pbags[p]]]

\* _sync_routing_tables: the table is computed, then written to the
\* provider databag of every relation; an exception of get_routing_table
\* leaves before the first write.
_sync_routing_tables(rels, rbags, pbags) ==
    LET routing_table == Provides_get_routing_table(rels, rbags)
    IN IF routing_table.exc # "none"
       THEN [exc |-> routing_table.exc, bags |-> pbags]
       ELSE [exc |-> "none",
             bags |-> [p \in Peers |-> IF IsJoined(rels, p)
                                       THEN json_dumps(routing_table.val)
                                       ELSE pbags[p]]]

\* mutant: entries published by the pass before are kept under their names
ProviderHandler_KeepOld(leader, rels, rbags, pbags) ==
    LET new_table == Provides_get_routing_table(rels, rbags)
        prev == IF Len(rels) > 0 /\ pbags[rels[1]].kind = "json"
                THEN pbags[rels[1]].val ELSE <<>>
        kept == SelectSeq(prev, LAMBDA e : e.name \notin DictKeys(new_table.val))
        merged == kept \o new_table.val
    IN IF ~leader
       THEN [exc |-> "none", bags |-> pbags, emitted |-> FALSE, table |-> <<>>]
       ELSE IF new_table.exc # "none"
       THEN [exc |-> new_table.exc, bags |-> pbags, emitted |-> FALSE, table |-> <<>>]
       ELSE [exc |-> "none",
             bags |-> [p \in Peers |-> IF IsJoined(rels, p) THEN json_dumps(merged)
                                       ELSE pbags[p]],
             emitted |-> TRUE, table |-> merged]

\* mutant: the event is emitted before the databags are written
ProviderHandler_EmitFirst(leader, rels, rbags, pbags) ==
    LET new_table == Provides_get_routing_table(rels, rbags)
    IN IF ~leader
       THEN [exc |-> "none", bags |-> pbags, emitted |-> FALSE, table |-> <<>>]
       ELSE IF new_table.exc # "none"
       THEN [exc |-> new_table.exc, bags |-> pbags, emitted |-> FALSE, table |-> <<>>]
       ELSE [exc |-> "none", bags |-> pbags, emitted |-> TRUE,
             table |-> new_table.val]

\* What _router_relation_changed and _router_relation_departed do: the
\* exception that ends the handler, the provider databags it leaves, whether
\* routing_table_updated is emitted and the table the event carries.
ProviderHandler(leader, rels, rbags, pbags) ==
    LET synced == _sync_routing_tables(rels, rbags, pbags)
        new_table == Provides_get_routing_table(rels, rbags)
    IN IF ~leader
       THEN [exc |-> "none", bags |-> pbags, emitted |-> FALSE, table |-> <<>>]
       ELSE IF synced.exc # "none"
       THEN [exc |-> synced.exc, bags |-> synced.bags, emitted |-> FALSE,
             table |-> <<>>]
       ELSE IF new_table.exc # "none"
       THEN [exc |-> new_table.exc, bags |-> synced.bags, emitted |-> FALSE,
             table |-> <<>>]
       ELSE [exc |-> "none", bags |-> synced.bags, emitted |-> TRUE,
             table |-> new_table.val]

Provides_router_relation_changed(leader) ==
    /\ relations # <<>>
    /\ provBag' = ProviderHandler(leader, relations, reqBag, provBag).bags
    /\ UNCHANGED <<relations, reqBag, vIn, vOut, rIn, rOut>>

\* mutant: the departed handler folds on top of the table published before
DepartedHandler_Accumulate(leader, listed, p, rels, rbags, pbags) ==
    LET remaining == IF listed THEN rels ELSE SelectSeq(rels, LAMBDA q : q # p)
        synced == _sync_routing_tables_Accumulate(remaining, rbags, pbags)
    IN IF ~leader
       THEN [exc |-> "none", bags |-> pbags, emitted |-> FALSE, table |-> <<>>]
       ELSE IF synced.exc # "none"
       THEN [exc |-> synced.exc, bags |-> pbags, emitted |-> FALSE, table |-> <<>>]
       ELSE [exc |-> "none", bags |-> synced.bags, emitted |-> TRUE,
             table |-> IF Len(remaining) > 0 THEN synced.bags[remaining[1]].val
                       ELSE <<>>]

\* _router_relation_departed does not look at event.relation: it folds the
\* relations self.model.relations enumerates while the handler runs. The
\* source does not decide whether the departing relation is still among
\* them (listed) or already gone; the relation is removed afterwards.
DepartedHandler(leader, listed, p, rels, rbags, pbags) ==
    ProviderHandler(leader,
                    IF listed THEN rels ELSE SelectSeq(rels, LAMBDA q : q # p),
                    rbags, pbags)

Provides_router_relation_departed(p, leader, listed) ==
    /\ Joined(p)
    /\ relations' = SelectSeq(relations, LAMBDA q : q # p)
    /\ reqBag' = [reqBag EXCEPT ![p] = Absent]
    /\ provBag' = [DepartedHandler(leader, listed, p, relations, reqBag, provBag).bags
                      EXCEPT ![p] = Absent]
    /\ UNCHANGED <<vIn, vOut, rIn, rOut>>

\* ------------------------------------------------------ RouterRequires
\* mutant: leadership is not checked
RequestNetwork_NoLeaderCheck(leader, slots, old, requested_networks) ==
    LET observed == Requires_get_routing_table(TRUE, slots)
        existing_routing_table == PopRequested(observed.val, requested_networks)
        v == ValidateRequested(requested_networks, 1, existing_routing_table)
    IN IF Len(slots) = 0
       THEN [exc |-> "none", msg |-> "", written |-> FALSE, bag |-> old]
       ELSE IF observed.exc # "none"
       THEN [exc |-> observed.exc, msg |-> "", written |-> FALSE, bag |-> old]
       ELSE IF v.exc # "none"
       THEN [exc |-> v.exc, msg |-> v.msg, written |-> FALSE, bag |-> old]
       ELSE [exc |-> "none", msg |-> "", written |-> TRUE,
             bag |-> json_dumps(requested_networks)]

\* mutant: the batch is merged into the proposal published before
RequestNetwork_Merge(leader, slots, old, requested_networks) ==
    LET observed == Requires_get_routing_table(TRUE, slots)
        existing_routing_table == PopRequested(observed.val, requested_networks)
        v == ValidateRequested(requested_networks, 1, existing_routing_table)
        kept == IF old.kind = "json"
                THEN SelectSeq(old.val,
                               LAMBDA e : e.name \notin DictKeys(requested_networks))
                ELSE <<>>
    IN IF ~leader \/ Len(slots) = 0
       THEN [exc |-> "none", msg |-> "", written |-> FALSE, bag |-> old]
       ELSE IF observed.exc # "none"
       THEN [exc |-> observed.exc, msg |-> "", written |-> FALSE, bag |-> old]
       ELSE IF v.exc # "none"
       THEN [exc |-> v.exc, msg |-> v.msg, written |-> FALSE, bag |-> old]
       ELSE [exc |-> "none", msg |-> "", written |-> TRUE,
             bag |-> json_dumps(kept \o requested_networks)]

\* What request_network does on a unit with the given leadership whose
\* relations have the provider databags slots: the exception raised to the
\* caller and the requirer databag it leaves (old is the one before).
RequestNetwork(leader, slots, old, requested_networks) ==
    LET observed == Requires_get_routing_table(TRUE, slots)
        existing_routing_table == PopRequested(observed.val, requested_networks)
        v == ValidateRequested(requested_networks, 1, existing_routing_table)
    IN IF ~leader \/ Len(slots) = 0
       THEN [exc |-> "none", msg |-> "", written |-> FALSE, bag |-> old]
       ELSE IF observed.exc # "none"
       THEN [exc |-> observed.exc, msg |-> "", written |-> FALSE, bag |-> old]
       ELSE IF v.exc # "none"
       THEN [exc |-> v.exc, msg |-> v.msg, written |-> FALSE, bag |-> old]
       ELSE [exc |-> "none", msg |-> "", written |-> TRUE,
             bag |-> json_dumps(requested_networks)]

\* the provider databags of the relations of requirer p
Slots(p) == IF Joined(p) THEN <<provBag[p]>> ELSE <<>>

\* mutant: the batch is also written to the provider side of the relation
request_network_AlsoPublishes(p, requested_networks, leader) ==
    LET r == RequestNetwork(leader, Slots(p), reqBag[p], requested_networks)
    IN /\ reqBag' = [reqBag EXCEPT ![p] = r.bag]
       /\ provBag' = [provBag EXCEPT ![p] = IF r.written THEN r.bag ELSE @]
       /\ UNCHANGED <<relations, vIn, vOut, rIn, rOut>>

request_network(p, requested_networks, leader) ==
    /\ reqBag' = [reqBag EXCEPT
                     ![p] = RequestNetwork(leader, Slots(p), reqBag[p],
                                           requested_networks).bag]
    /\ UNCHANGED <<relations, provBag, vIn, vOut, rIn, rOut>>

\* What the requirer's _router_relation_changed does: the table is read and
\* emitted with routing_table_updated.
RequirerHandler(leader, slots) ==
    LET new_table == Requires_get_routing_table(leader, slots)
    IN [exc |-> new_table.exc, emitted |-> new_table.exc = "none",
        table |-> new_table.val, isnone |-> new_table.isnone]

Requires_router_relation_changed(p, leader) ==
    /\ Joined(p)
    /\ UNCHANGED vars

Next ==
    \/ \E p \in Peers : Join(p)
    \/ \E p \in Peers : Depart(p)
    \/ \E p \in Peers, payload \in RawPayloads : RawWrite(p, payload)
    \/ \E leader \in BOOLEAN : Provides_router_relation_changed(leader)
    \/ \E p \in Peers, leader \in BOOLEAN, listed \in BOOLEAN :
          Provides_router_relation_departed(p, leader, listed)
    \/ \E p \in Peers, b \in Batches, leader \in BOOLEAN : request_network(p, b, leader)
    \/ \E p \in Peers, leader \in BOOLEAN : Requires_router_relation_changed(p, leader)

Spec == Init /\ [][Next]_vars

\* ----------------------------------------------- the validator alone
\* Largest number of entries of the existing table given to the validator.
MaxTable == 2
Prefixes == {[addr |-> a, len |-> l] : a \in Addrs, l \in 0..AddrBits}
Routes ==
    {Route(k, g) : k \in {FullRoute, {"gateway"}}, g \in Addrs}
        \cup {Route(k, 0) : k \in {{"destination"}, {}}}
RECURSIVE SeqsUpTo(_, _)
SeqsUpTo(S, n) ==
    IF n = 0 THEN {<<>>}
    ELSE LET shorter == SeqsUpTo(S, n - 1)
         IN shorter \cup {Append(q, x) : q \in {y \in shorter : Len(y) = n - 1}, x \in S}
\* the candidates with at most n routes
CandidatesWith(n) ==
    {Net(k, IF "network" \in k THEN p ELSE NoPrefix,
            IF "gateway" \in k THEN g ELSE 0,
            IF "routes" \in k THEN r ELSE <<>>) :
        k \in SUBSET Routed, p \in Prefixes, g \in Addrs,
        r \in SeqsUpTo(Routes, n)}
Candidates == CandidatesWith(MaxRoutes)
\* the tables the validator is given hold networks it has accepted
AcceptedNets ==
    {Net(Plain, n, n.addr, <<>>) : n \in {x \in Prefixes : IPv4NetworkOk(x)}}
\* tables of at most n accepted networks under the names a, b, ...
RECURSIVE NamedTables(_)
NamedTables(n) ==
    IF n = 0 THEN {<<>>}
    ELSE LET shorter == NamedTables(n - 1)
         IN shorter \cup
            {Append(t, Entry(NameOf(n), v)) :
                t \in {y \in shorter : Len(y) = n - 1}, v \in AcceptedNets}
AcceptedTables ==
    {t \in NamedTables(MaxTable) :
        \A i \in 1..Len(t) :
            _validate_network(t[i].net, SubSeq(t, 1, i - 1)).exc = "none"}

InitV ==
    /\ relations = <<>>
    /\ reqBag = [p \in Peers |-> Absent]
    /\ provBag = [p \in Peers |-> Absent]
    /\ vIn \in [cand : CandidatesWith(1), table : AcceptedTables]
                \cup [cand : Candidates, table : {<<>>}]
    /\ vOut = Pending
    /\ rIn = NoSlots
    /\ rOut = NotRead

\* mutant: an accepted candidate is added to the table it was checked against
_validate_network_arguments_Insert(network_request, existing_routing_table) ==
    [cand |-> network_request,
     table |-> IF _validate_network(network_request, existing_routing_table).exc = "none"
               THEN Append(existing_routing_table, Entry("new", network_request))
               ELSE existing_routing_table]

\* The two arguments as the call leaves them: _validate_network only reads
\* them (in, .get, .values(), subscripts) and assigns to neither.
_validate_network_arguments(network_request, existing_routing_table) ==
    [cand |-> network_request, table |-> existing_routing_table]

Validate ==
    /\ vOut = Pending
    /\ vOut' = _validate_network(vIn.cand, vIn.table)
    /\ vIn' = _validate_network_arguments(vIn.cand, vIn.table)
    /\ UNCHANGED <<relations, reqBag, provBag, rIn, rOut>>

NextV == Validate

SpecV == InitV /\ [][NextV]_vars

\* ------------------------------------------ the requirer's read alone
\* Largest number of provider relations of the requirer.
MaxSlots == 2
\* what the provider side of a relation may hold under "networks"
SlotPayloads == {Absent, Garbage, Scalar} \cup {json_dumps(t) : t \in Batches}

InitR ==
    /\ relations = <<>>
    /\ reqBag = [p \in Peers |-> Absent]
    /\ provBag = [p \in Peers |-> Absent]
    /\ vIn = NoInput
    /\ vOut = Pending
    /\ rIn \in [leader : BOOLEAN, slots : SeqsUpTo(SlotPayloads, MaxSlots)]
    /\ rOut = NotRead

Requires_get_routing_table_call ==
    /\ rOut = NotRead
    /\ rOut' = Requires_get_routing_table(rIn.leader, rIn.slots)
    /\ UNCHANGED <<relations, reqBag, provBag, vIn, vOut, rIn>>

NextR == Requires_get_routing_table_call

SpecR == InitR /\ [][NextR]_vars

\* ------------------------------------------------------------ properties
\* the addresses of a prefix
AddrSet(pfx) == {a \in Addrs : AddrInNetwork(a, pfx)}
\* equal prefixes, or one a subnet or supernet of the other
Overlap(n1, n2) ==
    \/ AddrSet(n1) \subseteq AddrSet(n2)
    \/ AddrSet(n2) \subseteq AddrSet(n1)
NoOverlap(tbl) ==
    \A i, j \in 1..Len(tbl) :
        i # j => ~Overlap(tbl[i].net.network, tbl[j].net.network)
Entries(d) == {d[i] : i \in 1..Len(d)}
\* the entries of the mapping a databag holds (none when it holds no mapping)
BagEntries(payload) == IF payload.kind = "json" THEN Entries(payload.val) ELSE {}
\* the table a leader unit of requirer p observes
Observed(p) == Requires_get_routing_table(TRUE, Slots(p)).val

\* C1: every table the provider's get_routing_table returns and every table
\* found in a provider databag has no two distinct entries whose prefixes
\* are equal or nested.
C1_NoOverlap ==
    /\ LET r == Provides_get_routing_table(relations, reqBag)
       IN r.exc = "none" => NoOverlap(r.val)
    /\ \A p \in Peers : provBag[p].kind = "json" => NoOverlap(provBag[p].val)

\* C1 witness: a table of two entries, one from each of two peers, was
\* published to both of them.
C1_Witness ==
    \E p, q \in Peers :
        /\ p # q
        /\ provBag[p].kind = "json" /\ provBag[q] = provBag[p]
        /\ Len(provBag[p].val) = 2
        /\ BagEntries(reqBag[p]) \cap Entries(provBag[p].val) # {}
        /\ BagEntries(reqBag[q]) \cap Entries(provBag[p].val) # {}

\* the checks of the validator that do not depend on the existing table
FailsAlone(net) == _validate_network(net, <<>>).exc # "none"
\* a batch has an entry that fails validation: alone, against an entry of
\* the observed table under a name the batch does not use, or against an
\* earlier entry of the batch
HasFailingEntry(batch, observed) ==
    \E i \in 1..Len(batch) :
        \/ FailsAlone(batch[i].net)
        \/ \E e \in Entries(observed) :
              /\ e.name \notin DictKeys(batch)
              /\ Overlap(e.net.network, batch[i].net.network)
        \/ \E j \in 1..(i - 1) : Overlap(batch[j].net.network, batch[i].net.network)

Undisputed(q, e) ==
    /\ e.name # "" /\ e.net.keys # {}
    /\ ~FailsAlone(e.net)
    /\ \A r \in Peers : \A f \in BagEntries(reqBag[r]) :
          (Joined(r) /\ f # e) =>
              /\ f.name # e.name
              /\ ("network" \in f.net.keys => ~Overlap(f.net.network, e.net.network))
Undecodable(payload) == payload.kind \in {"absent", "garbage"}
\* the entries in the databag of a related peer
ProposedBy(p) == IF Joined(p) THEN BagEntries(reqBag[p]) ELSE {}
\* no related peer holds JSON text that is not a mapping
AllMappings == \A p \in Peers : Joined(p) => reqBag[p].kind # "scalar"

\* every entry the related peers propose is undisputed
AllUndisputed ==
    AllMappings /\ \A q \in Peers : \A e \in ProposedBy(q) : Undisputed(q, e)

RECURSIVE SkipRequests(_, _, _)
SkipRequests(network_requests, i, acc) ==
    IF i > Len(network_requests) THEN acc
    ELSE LET e == network_requests[i]
         IN SkipRequests(network_requests, i + 1,
                IF \/ e.name = "" \/ e.net.keys = {}
                   \/ e.name \in DictKeys(acc)
                   \/ _validate_network(e.net, acc).exc # "none"
                THEN acc
                ELSE DictSet(acc, e.name, e.net))
RECURSIVE SkipRelations(_, _, _, _)
SkipRelations(rels, bags, j, acc) ==
    IF j > Len(rels) THEN acc
    ELSE SkipRelations(rels, bags, j + 1,
             IF bags[rels[j]].kind = "json"
             THEN SkipRequests(bags[rels[j]].val, 1, acc)
             ELSE acc)
SkippingFold(rels, bags) == SkipRelations(rels, bags, 1, <<>>)

NameCollision ==
    \E p, q \in Peers : p # q /\ \E e \in ProposedBy(p), f \in ProposedBy(q) : e.name = f.name
\* no entry of a related peer fails the validator in a fold
NoValidatorFailure ==
    \A p, q \in Peers : \A e \in ProposedBy(p), f \in ProposedBy(q) :
        /\ (e.name = "" \/ e.net.keys = {} \/ ~FailsAlone(e.net))
        /\ (e # f /\ e.name # f.name /\ e.name # "" /\ f.name # ""
              /\ e.net.keys # {} /\ f.net.keys # {})
             => ~Overlap(e.net.network, f.net.network)

\* C4: when entries of the related peers fail the validator against the
\* accumulator (and no name is proposed twice), the pass returns the table
\* that omits exactly those entries: every entry accepted before and every
\* valid entry after them is in it.
C4_EntryIsolated ==
    (AllMappings /\ ~NameCollision) =>
        Provides_get_routing_table(relations, reqBag)
            = Returned(SkippingFold(relations, reqBag))

\* C5: when two related peers propose the same name (and no entry fails the
\* validator), the pass returns the table that keeps the entry of the
\* earlier peer and holds every other entry.
C5_NameCollisionIsolated ==
    (AllMappings /\ NoValidatorFailure) =>
        Provides_get_routing_table(relations, reqBag)
            = Returned(SkippingFold(relations, reqBag))

\* C6: whatever the databags of the related peers hold, the handler of the
\* leader provider ends without an exception, with the table it computed in
\* the provider databag of every related peer and in the emitted event.
C6_HandlerCompletes ==
    relations # <<>> =>
        LET h == ProviderHandler(TRUE, relations, reqBag, provBag)
        IN /\ h.exc = "none"
           /\ h.emitted
           /\ \A p \in Peers : Joined(p) => h.bags[p] = json_dumps(h.table)

\* C7: a candidate that carries a prefix and a gateway outside of it is
\* rejected with the gateway error, whatever the existing table is.
C7_GatewayRejected ==
    ( /\ vOut # Pending
      /\ Plain \subseteq vIn.cand.keys
      /\ IPv4NetworkOk(vIn.cand.network)
      /\ ~AddrInNetwork(vIn.cand.gateway, vIn.cand.network) ) =>
        vOut = Raise("ValueError", "Chosen gateway not within given network.")

GatewayContained(tbl) ==
    \A e \in Entries(tbl) :
        /\ AddrInNetwork(e.net.gateway, e.net.network)
        /\ \A i \in 1..Len(e.net.routes) :
              AddrInNetwork(e.net.routes[i].gateway, e.net.network)

\* C8: every network of a published table and of the table a requirer
\* observes has its gateway and the gateway of each of its routes inside
\* its prefix.
C8_GatewayContainment ==
    \A p \in Peers :
        /\ provBag[p].kind = "json" => GatewayContained(provBag[p].val)
        /\ GatewayContained(Observed(p))

\* the entries of the table p observes that another related peer proposes
\* and p does not
OfOthers(p) ==
    {e \in Entries(Observed(p)) :
        /\ e \notin ProposedBy(p)
        /\ \E q \in Peers : q # p /\ e \in ProposedBy(q)}

\* C9: when the table a requirer observes holds an entry of another peer, a
\* request_network call of the leader whose batch has a network that
\* overlaps that entry fails and writes nothing.
C9_ConflictRejected ==
    \A p \in Peers, b \in Batches :
        ( /\ Joined(p)
          /\ \E e \in OfOthers(p) : \E i \in 1..Len(b) :
                /\ "network" \in b[i].net.keys
                /\ Overlap(e.net.network, b[i].net.network) ) =>
            LET r == RequestNetwork(TRUE, Slots(p), reqBag[p], b)
            IN r.exc # "none" /\ r.bag = reqBag[p]

\* C10: a request_network call of the leader is not rejected because of the
\* peer's own entries in the observed table: a batch whose entries pass the
\* validator alone, do not overlap each other and do not overlap an observed
\* entry of another peer is published.
C10_NoSelfConflict ==
    \A p \in Peers, b \in Batches :
        ( /\ Joined(p)
          /\ \A i \in 1..Len(b) :
                /\ ~FailsAlone(b[i].net)
                /\ \A j \in 1..Len(b) :
                      i # j => ~Overlap(b[i].net.network, b[j].net.network)
                /\ \A e \in Entries(Observed(p)) \ ProposedBy(p) :
                      ~Overlap(e.net.network, b[i].net.network) ) =>
            RequestNetwork(TRUE, Slots(p), reqBag[p], b).written

\* C11: a request_network call of the leader that succeeds leaves in the
\* requirer's databag exactly the mapping it was given: the same entries in
\* the same order, and no name of the proposal published before that the
\* new mapping omits.
C11_Replacement ==
    \A p \in Peers, b \in Batches :
        LET r == RequestNetwork(TRUE, Slots(p), reqBag[p], b)
        IN r.written =>
              /\ json_loads(r.bag).exc = "none"
              /\ json_loads(r.bag).val = b
              /\ \A e \in BagEntries(reqBag[p]) :
                    e.name \notin DictKeys(b) => e.name \notin DictKeys(json_loads(r.bag).val)

\* C11 witness: the only related peer had its network a published and has
\* since replaced its proposal by a mapping that holds b alone.
C11_Witness ==
    \E p \in Peers :
        /\ relations = <<p>>
        /\ provBag[p].kind = "json" /\ DictKeys(provBag[p].val) = {"a"}
        /\ reqBag[p].kind = "json" /\ DictKeys(reqBag[p].val) = {"b"}
        /\ \E b \in Batches :
              /\ reqBag[p] = json_dumps(b)
              /\ RequestNetwork(TRUE, Slots(p), json_dumps(provBag[p].val), b).written

\* the orders in which the relations of the provider can be enumerated
Orders(rels) ==
    {o \in [1..Len(rels) -> Peers] :
        \A p \in Peers : IsJoined(o, p) <=> IsJoined(rels, p)}

\* C12: the outcome of the provider's pass (the table with its entries in
\* their order, as it is serialised into the databags, or the exception)
\* is the same for every order in which the relations are enumerated.
C12_OrderIndependent ==
    \A o \in Orders(relations) :
        Provides_get_routing_table(o, reqBag)
            = Provides_get_routing_table(relations, reqBag)

\* the same up to the order of the keys and the kind of the exception
C12_SameEntries ==
    \A o \in Orders(relations) :
        LET r1 == Provides_get_routing_table(o, reqBag)
            r2 == Provides_get_routing_table(relations, reqBag)
        IN /\ (r1.exc = "none") <=> (r2.exc = "none")
           /\ DictEq(r1.val, r2.val)

\* C13: a second pass of the leader provider over unchanged requirer
\* databags ends as the first: the same table (or the same exception), and
\* every provider databag keeps the content the first pass gave it.
C13_Idempotent ==
    relations # <<>> =>
        LET h1 == ProviderHandler(TRUE, relations, reqBag, provBag)
            h2 == ProviderHandler(TRUE, relations, reqBag, h1.bags)
        IN /\ h2.exc = h1.exc
           /\ h2.table = h1.table
           /\ h2.emitted = h1.emitted
           /\ h2.bags = h1.bags

\* C13 witness: a pass has published a table of two entries to two related
\* peers and the proposals are as that pass found them.
C13_Witness ==
    /\ Len(relations) = 2
    /\ LET h == ProviderHandler(TRUE, relations, reqBag, provBag)
       IN /\ h.exc = "none" /\ Len(h.table) = 2
          /\ provBag = h.bags

\* no related peer other than p has written its databag
NoOtherProposals(p) == \A q \in Peers : (q # p /\ Joined(q)) => reqBag[q] = Absent

\* C14: when no other peer has proposed anything and request_network of the
\* leader of p succeeds with a mapping, then after the leader provider has
\* handled the change, get_routing_table of the provider and of the
\* requirer's leader both return exactly that mapping.
C14_Convergence ==
    \A p \in Peers, b \in Batches :
        LET r == RequestNetwork(TRUE, Slots(p), reqBag[p], b)
            rbags == [reqBag EXCEPT ![p] = r.bag]
            h == ProviderHandler(TRUE, relations, rbags, provBag)
        IN (Joined(p) /\ NoOtherProposals(p) /\ r.written) =>
              /\ h.exc = "none"
              /\ Provides_get_routing_table(relations, rbags) = Returned(b)
              /\ Requires_get_routing_table(TRUE, <<h.bags[p]>>).val = b
              /\ RequirerHandler(TRUE, <<h.bags[p]>>).table = b

\* the same for the mappings that have no empty name
C14_NamedConvergence ==
    \A p \in Peers, b \in Batches \ {EmptyNamed} :
        LET r == RequestNetwork(TRUE, Slots(p), reqBag[p], b)
            rbags == [reqBag EXCEPT ![p] = r.bag]
            h == ProviderHandler(TRUE, relations, rbags, provBag)
        IN (Joined(p) /\ NoOtherProposals(p) /\ r.written) =>
              /\ h.exc = "none"
              /\ Provides_get_routing_table(relations, rbags) = Returned(b)
              /\ Requires_get_routing_table(TRUE, <<h.bags[p]>>).val = b

\* the entries the related peers other than p propose
ProposedByOthers(p) == UNION {ProposedBy(q) : q \in Peers \ {p}}

\* C15: the pass the leader provider runs for the departure of peer p, when
\* it returns a table, returns one that holds no entry of p and every
\* undisputed entry of the remaining peers, and writes it to the databags
\* of the remaining peers.
C15_Departure ==
    \A p \in Peers, listed \in BOOLEAN :
        LET h == DepartedHandler(TRUE, listed, p, relations, reqBag, provBag)
        IN (Joined(p) /\ h.exc = "none") =>
              /\ Entries(h.table) \cap (ProposedBy(p) \ ProposedByOthers(p)) = {}
              /\ \A q \in Peers \ {p} : \A e \in ProposedBy(q) :
                    Undisputed(q, e) => e \in Entries(h.table)
              /\ \A q \in Peers \ {p} : Joined(q) => h.bags[q] = json_dumps(h.table)

\* the same when the departing relation is no longer enumerated
C15_DepartureUnlisted ==
    \A p \in Peers :
        LET h == DepartedHandler(TRUE, FALSE, p, relations, reqBag, provBag)
        IN (Joined(p) /\ h.exc = "none") =>
              /\ Entries(h.table) \cap (ProposedBy(p) \ ProposedByOthers(p)) = {}
              /\ \A q \in Peers \ {p} : \A e \in ProposedBy(q) :
                    Undisputed(q, e) => e \in Entries(h.table)
              /\ \A q \in Peers \ {p} : Joined(q) => h.bags[q] = json_dumps(h.table)

\* C16: the table a completed pass of the leader provider returns and
\* writes holds only entries that are, under the same name and with the
\* same content, in the databag of a related requirer when the pass runs;
\* what earlier passes published has no part in it.
C16_RebuiltFromProposals ==
    relations # <<>> =>
        LET h == ProviderHandler(TRUE, relations, reqBag, provBag)
        IN h.exc = "none" =>
              /\ Entries(h.table) \subseteq UNION {ProposedBy(q) : q \in Peers}
              /\ \A q \in Peers :
                    Joined(q) => BagEntries(h.bags[q]) \subseteq UNION {ProposedBy(r) : r \in Peers}

\* C16 witness: the table published to the only related peer holds its
\* network a, the peer has replaced its proposal by b alone, and the pass
\* over this state returns b alone.
C16_Witness ==
    \E p \in Peers :
        /\ relations = <<p>>
        /\ provBag[p].kind = "json" /\ "a" \in DictKeys(provBag[p].val)
        /\ reqBag[p].kind = "json" /\ DictKeys(reqBag[p].val) = {"b"}
        /\ LET h == ProviderHandler(TRUE, relations, reqBag, provBag)
           IN h.exc = "none" /\ DictKeys(h.table) = {"b"}

\* the relations a pass may have enumerated in the current state
Enumerations ==
    {relations} \cup {SelectSeq(relations, LAMBDA q : q # p) : p \in Peers}

\* C17: whenever a step changes the provider databag of a peer that stays
\* related, a pass has completed, and after the step the provider databag
\* of every related peer holds the serialised table that pass computed.
C17_PublishedToAll ==
    [][ (\E q \in Peers : IsJoined(relations', q) /\ provBag'[q] # provBag[q]) =>
            \E rels \in Enumerations :
                LET r == Provides_get_routing_table(rels, reqBag)
                IN /\ r.exc = "none"
                   /\ \A q \in Peers :
                         IsJoined(relations', q) => provBag'[q] = json_dumps(r.val) ]_vars

\* C17 witness: two related peers hold the same published table, which is
\* not empty and is the table of the pass over the current proposals.
C17_Witness ==
    \E p, q \in Peers :
        /\ p # q /\ Joined(p) /\ Joined(q)
        /\ provBag[p].kind = "json" /\ Len(provBag[p].val) >= 1
        /\ provBag[q] = provBag[p]
        /\ Provides_get_routing_table(relations, reqBag) = Returned(provBag[p].val)

\* C18: on a unit that is not the leader the provider's handlers return
\* without an exception, write no provider databag and emit nothing, and
\* request_network returns without an exception and leaves the requirer's
\* databag as it was.
C18_NonLeaderWritesNothing ==
    /\ LET h == ProviderHandler(FALSE, relations, reqBag, provBag)
       IN h.exc = "none" /\ h.bags = provBag /\ ~h.emitted
    /\ \A p \in Peers, listed \in BOOLEAN :
          LET h == DepartedHandler(FALSE, listed, p, relations, reqBag, provBag)
          IN h.exc = "none" /\ h.bags = provBag /\ ~h.emitted
    /\ \A p \in Peers, b \in Batches :
          LET r == RequestNetwork(FALSE, Slots(p), reqBag[p], b)
          IN r.exc = "none" /\ ~r.written /\ r.bag = reqBag[p]

\* C18 witness: a state in which the leader would write: a related peer has
\* a batch its leader would publish, and the leader provider has a table to
\* publish that the provider databags do not hold yet.
C18_Witness ==
    /\ \E p \in Peers, b \in Batches :
          /\ Joined(p)
          /\ RequestNetwork(TRUE, Slots(p), reqBag[p], b).written
          /\ json_dumps(b) # reqBag[p]
    /\ LET h == ProviderHandler(TRUE, relations, reqBag, provBag)
       IN h.exc = "none" /\ h.bags # provBag /\ Len(h.table) > 0

\* the candidate passes every check that does not look at the existing table
PassesAlone(cand) == _validate_network(cand, <<>>).exc = "none"

\* C19: for a candidate that passes the checks on its own fields, the
\* validator raises the conflict error exactly when the candidate's prefix
\* is equal to, inside of or around the prefix of an entry of the existing
\* table, and accepts the candidate otherwise.
C19_Exclusivity ==
    (vOut # Pending /\ PassesAlone(vIn.cand)) =>
        LET conflict == \E e \in Entries(vIn.table) :
                            Overlap(e.net.network, vIn.cand.network)
        IN /\ conflict <=> vOut = Raise("ValueError",
                                 "This network has been defined in a previous entry.")
           /\ ~conflict <=> vOut = Ok

\* C19 witness: the candidate is disjoint from the first entry of the
\* existing table and around the last, and is rejected.
C19_Witness ==
    /\ vOut # Pending /\ PassesAlone(vIn.cand)
    /\ Len(vIn.table) = 2
    /\ ~Overlap(vIn.table[1].net.network, vIn.cand.network)
    /\ LET last == vIn.table[Len(vIn.table)].net.network
       IN /\ AddrSet(last) \subseteq AddrSet(vIn.cand.network)
          /\ AddrSet(last) # AddrSet(vIn.cand.network)
    /\ vOut.exc = "ValueError"

\* the candidate has its prefix and, inside of it, its gateway, every route
\* has its two keys, and the gateway of some route is outside of the prefix
HasUnreachableRoute(cand) ==
    /\ Routed \subseteq cand.keys
    /\ IPv4NetworkOk(cand.network)
    /\ cand.gateway \in AddrSet(cand.network)
    /\ \A i \in 1..Len(cand.routes) : cand.routes[i].keys = FullRoute
    /\ \E i \in 1..Len(cand.routes) :
          cand.routes[i].gateway \notin AddrSet(cand.network)

\* C20: a candidate with a route whose gateway is outside of the
\* candidate's prefix is rejected with the route error, whatever the
\* existing table; request_network of the leader, given a batch with that
\* candidate while it observes that table, raises and leaves the
\* requirer's databag as it was.
C20_RouteUnreachable ==
    (vOut # Pending /\ HasUnreachableRoute(vIn.cand)) =>
        /\ vOut = Raise("ValueError",
                        "There is no route to this destination from the network.")
        /\ \A old \in {Absent, json_dumps(vIn.table)} :
           \A batch \in {<<Entry("a", vIn.cand)>>,
                          <<Entry("b", NetB), Entry("a", vIn.cand)>>} :
              LET r == RequestNetwork(TRUE, <<json_dumps(vIn.table)>>, old, batch)
              IN r.exc \in {"ValueError", "KeyError"} /\ ~r.written /\ r.bag = old

\* C20 witness: the first route of the candidate is reachable, the second
\* is not, and the candidate was rejected.
C20_Witness ==
    /\ vOut # Pending /\ HasUnreachableRoute(vIn.cand)
    /\ Len(vIn.cand.routes) = 2
    /\ vIn.cand.routes[1].gateway \in AddrSet(vIn.cand.network)
    /\ vOut.exc = "ValueError"

\* the batches that hold the candidate alone or after a valid entry
BatchesWith(cand) ==
    {<<Entry("a", cand)>>, <<Entry("b", NetB), Entry("a", cand)>>}

\* request_network of the leader, observing the table tbl, given one of
\* these batches, raises and leaves the requirer's databag as it was
BatchRejected(cand, tbl) ==
    \A old \in {Absent, json_dumps(tbl)} : \A batch \in BatchesWith(cand) :
        LET r == RequestNetwork(TRUE, <<json_dumps(tbl)>>, old, batch)
        IN r.exc \in {"ValueError", "KeyError"} /\ ~r.written /\ r.bag = old

\* C21: a candidate without its gateway or without its prefix is rejected
\* with a KeyError whose message names a key the candidate lacks, whatever
\* the existing table; request_network given a batch with that candidate
\* raises and publishes nothing.
C21_MissingField ==
    (vOut # Pending /\ ~(Plain \subseteq vIn.cand.keys)) =>
        /\ vOut.exc = "KeyError"
        /\ "gateway" \notin vIn.cand.keys => vOut.msg = "Key 'gateway' not found."
        /\ "gateway" \in vIn.cand.keys => vOut.msg = "Key 'network' not found."
        /\ BatchRejected(vIn.cand, vIn.table)

\* C21 witness: a candidate with a gateway, routes and no prefix was
\* rejected against a table that is not empty.
C21_Witness ==
    /\ vOut # Pending
    /\ vIn.cand.keys = {"gateway", "routes"}
    /\ Len(vIn.table) > 0
    /\ vOut = Raise("KeyError", "Key 'network' not found.")

\* the candidate has its prefix and, inside of it, its gateway, and a route
\* that lacks a key
HasIncompleteRoute(cand) ==
    /\ Routed \subseteq cand.keys
    /\ IPv4NetworkOk(cand.network)
    /\ cand.gateway \in AddrSet(cand.network)
    /\ \E i \in 1..Len(cand.routes) : cand.routes[i].keys # FullRoute

\* the KeyError of a route, naming a key that a route of the candidate lacks
NamesMissingRouteKey(cand, out) ==
    /\ out.exc = "KeyError"
    /\ \/ /\ out.msg = "Key 'gateway' not found in route."
          /\ \E i \in 1..Len(cand.routes) : "gateway" \notin cand.routes[i].keys
       \/ /\ out.msg = "Key 'destination' not found in route."
          /\ \E i \in 1..Len(cand.routes) : "destination" \notin cand.routes[i].keys

\* C22: a candidate with a route that lacks its destination or its gateway
\* is rejected with the KeyError that names a missing key of a route,
\* whatever the existing table and the other routes; request_network given
\* a batch with that candidate raises and publishes nothing.
C22_RouteIncomplete ==
    (vOut # Pending /\ HasIncompleteRoute(vIn.cand)) =>
        /\ NamesMissingRouteKey(vIn.cand, vOut)
        /\ BatchRejected(vIn.cand, vIn.table)

\* the same when no route before the first incomplete one is unreachable
C22_FirstFailureIncomplete ==
    ( /\ vOut # Pending /\ HasIncompleteRoute(vIn.cand)
      /\ \E i \in 1..Len(vIn.cand.routes) :
            /\ vIn.cand.routes[i].keys # FullRoute
            /\ \A j \in 1..(i - 1) :
                  vIn.cand.routes[j].gateway \in AddrSet(vIn.cand.network) ) =>
        /\ NamesMissingRouteKey(vIn.cand, vOut)
        /\ BatchRejected(vIn.cand, vIn.table)

\* The read that degrades entry by entry: a payload that is no mapping
\* contributes nothing, an entry that fails the validator against the
\* entries read so far is left out, and everything else is kept.
RECURSIVE IsolatingRead(_, _, _)
IsolatingRead(slots, j, acc) ==
    IF j > Len(slots) THEN acc
    ELSE IsolatingRead(slots, j + 1,
             IF slots[j].kind = "json" THEN ReadEntries(slots[j].val, 1, acc)
             ELSE acc)

\* C23: get_routing_table of a requirer's leader returns, without an
\* exception, every entry of the provider databags that passes the
\* validator against the entries read before it; an undecodable payload of
\* one relation takes nothing away from what the other relations gave.
C23_ReadIsolated ==
    (rOut # NotRead /\ rIn.leader) =>
        /\ rOut.exc = "none"
        /\ rOut.val = IsolatingRead(rIn.slots, 1, <<>>)

\* the same when every payload is absent or a mapping
C23_ReadOfMappings ==
    ( /\ rOut # NotRead /\ rIn.leader
      /\ \A j \in 1..Len(rIn.slots) : rIn.slots[j].kind \in {"absent", "json"} ) =>
        /\ rOut.exc = "none"
        /\ rOut.val = IsolatingRead(rIn.slots, 1, <<>>)

\* C24: on every unit of the requirer, whatever the provider databags
\* hold, get_network returns the network the observed table holds under
\* the name, and raises KeyError when the table has no such name.
C24_GetNetwork ==
    rOut # NotRead =>
        \A name \in Names :
            LET g == Requires_get_network(rIn.leader, rIn.slots, name)
                tbl == IsolatingRead(rIn.slots, 1, <<>>)
            IN IF name \in DictKeys(tbl)
               THEN g.exc = "none" /\ Entry(name, g.val) \in Entries(tbl)
               ELSE g.exc = "KeyError"

\* the same on the leader when the read itself returns a table
C24_LeaderGetNetwork ==
    (rOut # NotRead /\ rIn.leader /\ rOut.exc = "none") =>
        \A name \in Names :
            LET g == Requires_get_network(rIn.leader, rIn.slots, name)
            IN IF name \in DictKeys(rOut.val)
               THEN g.exc = "none" /\ Entry(name, g.val) \in Entries(rOut.val)
               ELSE g.exc = "KeyError"

\* p and q are related, each has published a mapping, every entry passes
\* the validator alone, an entry of p and an entry of q have distinct names
\* and disjoint prefixes, and so have two entries of one mapping
DisjointProposals(p, q) ==
    /\ p # q /\ Joined(p) /\ Joined(q)
    /\ reqBag[p].kind = "json" /\ reqBag[q].kind = "json"
    /\ Len(reqBag[p].val) > 0 /\ Len(reqBag[q].val) > 0
    /\ \A e \in ProposedBy(p) \cup ProposedBy(q) : PassesAlone(e.net)
    /\ \A e \in ProposedBy(p), f \in ProposedBy(q) :
          e.name # f.name /\ ~Overlap(e.net.network, f.net.network)
    /\ \A r \in {p, q} : \A e, f \in ProposedBy(r) :
          e # f => ~Overlap(e.net.network, f.net.network)

\* the pass returns a table that holds every entry of p and of q, in either
\* order of the two relations, and writes it to both
BothPublished(p, q) ==
    /\ \A o \in Orders(relations) :
          LET r == Provides_get_routing_table(o, reqBag)
          IN r.exc = "none" /\ Entries(r.val) = ProposedBy(p) \cup ProposedBy(q)
    /\ LET h == ProviderHandler(TRUE, relations, reqBag, provBag)
       IN /\ h.exc = "none"
          /\ h.bags[p] = json_dumps(h.table) /\ h.bags[q] = h.bags[p]

C25_AnyNameCoexist ==
    \A p, q \in Peers : DisjointProposals(p, q) => BothPublished(p, q)

\* no related peer holds a proposal: its databag has no value, or an empty
\* mapping
NothingProposed ==
    \A p \in Peers : Joined(p) => reqBag[p] \in {Absent, json_dumps(<<>>)}

WrittenToAll(rels, bags, tbl) ==
    \A p \in Peers : IsJoined(rels, p) => bags[p] = json_dumps(tbl)

\* C27: whenever a provider handler (relation changed or relation departed)
\* emits routing_table_updated, the databag of every relation the pass
\* enumerated holds the new table, and the table the event carries is that
\* table.
C27_EmittedAfterWrite ==
    /\ \A leader \in BOOLEAN :
          LET h == ProviderHandler(leader, relations, reqBag, provBag)
          IN h.emitted => WrittenToAll(relations, h.bags, h.table)
    /\ \A p \in Peers : \A leader, listed \in BOOLEAN :
          Joined(p) =>
            LET h == DepartedHandler(leader, listed, p, relations, reqBag, provBag)
                rels == IF listed THEN relations
                        ELSE SelectSeq(relations, LAMBDA q : q # p)
            IN h.emitted => WrittenToAll(rels, h.bags, h.table)

\* C27 witness: two peers are related, a pass has written a table of two
\* networks to both, and the handler emits that table.
C27_Witness ==
    /\ Len(relations) = 2
    /\ LET h == ProviderHandler(TRUE, relations, reqBag, provBag)
       IN /\ h.emitted
          /\ Len(h.table) = 2
          /\ WrittenToAll(relations, provBag, h.table)

\* C28: a completed pass of the leader's relation-changed handler emits
\* routing_table_updated if and only if it altered what is published; a
\* pass that leaves every provider databag as it was emits nothing.
C28_EmitsOnChangeOnly ==
    relations # <<>> =>
        LET h == ProviderHandler(TRUE, relations, reqBag, provBag)
        IN h.exc = "none" => (h.emitted <=> h.bags # provBag)

\* The part of C28 the handlers keep: every completed pass of the leader
\* emits, and a pass that altered what is published is among them.
C28_EmitsOnEveryPass ==
    relations # <<>> =>
        LET h == ProviderHandler(TRUE, relations, reqBag, provBag)
        IN h.exc = "none" => h.emitted

\* C29: when the provider's pass changes the databag a leader requirer
\* reads, the requirer's relation-changed handler emits
\* routing_table_updated if and only if the table it reads afterwards
\* differs from the table it read before.
C29_EmitsOnObservedChange ==
    \A p \in Peers :
        Joined(p) =>
            LET pass == ProviderHandler(TRUE, relations, reqBag, provBag)
                before == RequirerHandler(TRUE, Slots(p))
                after == RequirerHandler(TRUE, <<pass.bags[p]>>)
            IN (pass.bags[p] # provBag[p] /\ before.exc = "none" /\ after.exc = "none")
                   => (after.emitted <=> after.table # before.table)

\* The part of C29 the handler keeps: every read that completes is emitted,
\* so a changed table is always notified.
C29_EmitsOnEverySignal ==
    \A p \in Peers : \A leader \in BOOLEAN :
        Joined(p) =>
            LET h == RequirerHandler(leader, Slots(p))
            IN h.exc = "none" => h.emitted

\* the first of the five checks, in the stated order, that the candidate
\* fails against the table
FirstFailingCheck(cand, tbl) ==
    IF ~(Plain \subseteq cand.keys) THEN "MissingField"
    ELSE IF cand.gateway \notin AddrSet(cand.network) THEN "GatewayNotInNetwork"
    ELSE IF \E i \in 1..Len(cand.routes) : cand.routes[i].keys # FullRoute
    THEN "MissingRouteField"
    ELSE IF \E i \in 1..Len(cand.routes) :
                cand.routes[i].gateway \notin AddrSet(cand.network)
    THEN "RouteUnreachable"
    ELSE IF \E i \in 1..Len(tbl) : Overlap(cand.network, tbl[i].net.network)
    THEN "NetworkConflict"
    ELSE "Ok"

\* the check an outcome of _validate_network reports
ReportedCheck(out) ==
    CASE out.exc = "none" -> "Ok"
      [] out.exc = "KeyError" /\ out.msg \in {"Key 'gateway' not found.",
                                               "Key 'network' not found."}
           -> "MissingField"
      [] out.exc = "KeyError" /\ out.msg \in {"Key 'gateway' not found in route.",
                                               "Key 'destination' not found in route."}
           -> "MissingRouteField"
      [] out.exc = "ValueError"
           /\ out.msg = "There is no route to this destination from the network."
           -> "RouteUnreachable"
      [] out.exc = "ValueError"
           /\ out.msg = "This network has been defined in a previous entry."
           -> "NetworkConflict"
      [] OTHER -> "Other"

\* a candidate whose prefix, when it has one, is a network address
Parsable(cand) == "network" \in cand.keys => IPv4NetworkOk(cand.network)

\* C30: the validator reports the first failing check in the order
\* structural completeness, gateway containment, completeness of every
\* route, reachability of every route, exclusivity; a candidate with an
\* unreachable route and an incomplete route is rejected for the incomplete
\* one whatever the order of the routes.
C30_CheckOrder ==
    (vOut # Pending /\ Parsable(vIn.cand)) =>
        ReportedCheck(vOut) = FirstFailingCheck(vIn.cand, vIn.table)

\* C30 for candidates that are complete and hold their gateway: the order
\* of the two route checks and of exclusivity alone.
C30_RouteChecksOrder ==
    ( /\ vOut # Pending /\ Parsable(vIn.cand)
      /\ FirstFailingCheck(vIn.cand, vIn.table)
            \notin {"MissingField", "GatewayNotInNetwork"} ) =>
        ReportedCheck(vOut) = FirstFailingCheck(vIn.cand, vIn.table)

\* The part of C30 the validator keeps: with at most one route and the
\* gateway inside the prefix, the first failing check is the one reported.
C30_SingleRouteOrder ==
    ( /\ vOut # Pending /\ Parsable(vIn.cand)
      /\ FirstFailingCheck(vIn.cand, vIn.table) # "GatewayNotInNetwork"
      /\ Len(vIn.cand.routes) <= 1 ) =>
        ReportedCheck(vOut) = FirstFailingCheck(vIn.cand, vIn.table)

C31_RejectedReached ==
    /\ vOut # Pending
    /\ vOut.exc = "ValueError"
    /\ Len(vIn.table) = 2

\* the provider databags of the relations that remain are those a pass of
\* the provider's leader leaves
WrittenByLeaderPass ==
    \/ /\ relations' = relations
       /\ provBag' = ProviderHandler(TRUE, relations, reqBag, provBag).bags
    \/ \E p \in Peers : \E listed \in BOOLEAN :
          /\ Joined(p) /\ ~IsJoined(relations', p)
          /\ \A q \in Peers \ {p} :
                provBag'[q] = DepartedHandler(TRUE, listed, p, relations,
                                              reqBag, provBag).bags[q]

\* C32: a step that changes a requirer's databag while the relations stay
\* changes the databag of one peer only and no provider databag; a step
\* that changes the provider databag of a relation that remains is a pass
\* of the provider's leader and changes no requirer databag of a remaining
\* relation.
C32_SingleWriter ==
    [][ /\ (reqBag' # reqBag /\ relations' = relations) =>
              /\ provBag' = provBag
              /\ \E p \in Peers : \A q \in Peers \ {p} : reqBag'[q] = reqBag[q]
        /\ (\E q \in Peers : IsJoined(relations', q) /\ provBag'[q] # provBag[q]) =>
              /\ WrittenByLeaderPass
              /\ \A q \in Peers : IsJoined(relations', q) => reqBag'[q] = reqBag[q]
      ]_vars

\* C32 witness: request_network of one peer has published a batch of two
\* networks that the provider has not folded yet, while the other peer's
\* databag and both provider databags are as the last pass left them.
C32_Witness ==
    \E p, q \in Peers :
        /\ p # q /\ Joined(p) /\ Joined(q)
        /\ reqBag[p].kind = "json" /\ Len(reqBag[p].val) = 2
        /\ RequestNetwork(TRUE, Slots(p), Absent, reqBag[p].val).written
        /\ reqBag[q].kind = "json" /\ Len(reqBag[q].val) = 1
        /\ provBag[p] = json_dumps(reqBag[q].val)
        /\ provBag[q] = provBag[p]

\* the handler outcome h2 of a repeated delivery leaves what h1 left
SameOutcome(h1, h2) ==
    /\ h2.exc = h1.exc
    /\ h2.table = h1.table
    /\ h2.bags = h1.bags

\* C33: delivering relation-changed or relation-departed to the provider's
\* leader a second and a third time, the requirer databags and the
\* relations enumerated being the same, leaves the published table and
\* every databag as the first delivery left them.
C33_DuplicateDelivery ==
    /\ relations # <<>> =>
          LET h1 == ProviderHandler(TRUE, relations, reqBag, provBag)
              h2 == ProviderHandler(TRUE, relations, reqBag, h1.bags)
              h3 == ProviderHandler(TRUE, relations, reqBag, h2.bags)
          IN SameOutcome(h1, h2) /\ SameOutcome(h1, h3)
    /\ \A p \in Peers : \A listed \in BOOLEAN :
          Joined(p) =>
            LET h1 == DepartedHandler(TRUE, listed, p, relations, reqBag, provBag)
                h2 == DepartedHandler(TRUE, listed, p, relations, reqBag, h1.bags)
                h3 == DepartedHandler(TRUE, listed, p, relations, reqBag, h2.bags)
            IN SameOutcome(h1, h2) /\ SameOutcome(h1, h3)

\* C33 witness: two peers are related and both have proposed; a first
\* delivery of the departure of one of them has published the table of the
\* other's proposal to the peer that stays.
C33_Witness ==
    \E p, q \in Peers :
        /\ p # q /\ Joined(p) /\ Joined(q)
        /\ reqBag[p].kind = "json" /\ Len(reqBag[p].val) >= 1
        /\ LET h == DepartedHandler(TRUE, FALSE, p, relations, reqBag, provBag)
           IN /\ h.exc = "none" /\ Len(h.table) >= 1
              /\ provBag[q] = h.bags[q]
              /\ provBag[q] = json_dumps(h.table)

\* every proposal of a related peer is a batch request_network publishes
\* when the peer observes the empty table
ProposalsAcceptedAlone ==
    \A q \in Peers :
        Joined(q) =>
            \/ reqBag[q] = Absent
            \/ /\ reqBag[q].kind = "json"
               /\ RequestNetwork(TRUE, <<Absent>>, Absent, reqBag[q].val).written

\* C34: whatever request_network calls and signals were interleaved before,
\* once the provider's leader handles the change signal the table published
\* to every related peer is the fold of the proposals as they are at that
\* one moment.
C34_AtomicReconciliation ==
    (relations # <<>> /\ ProposalsAcceptedAlone) =>
        LET h == ProviderHandler(TRUE, relations, reqBag, provBag)
            r == Provides_get_routing_table(relations, reqBag)
        IN /\ r.exc = "none"
           /\ WrittenToAll(relations, h.bags, r.val)

\* The part of C34 the handler keeps: a pass whose fold completes publishes
\* the fold of the one snapshot it read, whatever was interleaved before.
C34_CompletedPassIsSnapshotFold ==
    [][ Provides_router_relation_changed(TRUE) =>
            LET r == Provides_get_routing_table(relations, reqBag)
            IN r.exc = "none" =>
                 \A q \in Peers : Joined(q) => provBag'[q] = json_dumps(r.val)
      ]_vars

\* C35: get_routing_table of a requirer unit, leader or not, returns what
\* the leader's read of the same provider databags returns, a mapping and
\* never None, and the table the unit's change notification carries is
\* that mapping.
C35_ReadIgnoresLeadership ==
    rOut # NotRead =>
        /\ rOut = Requires_get_routing_table(TRUE, rIn.slots)
        /\ ~rOut.isnone
        /\ LET h == RequirerHandler(rIn.leader, rIn.slots)
           IN h.emitted =>
                /\ ~h.isnone
                /\ h.table = Requires_get_routing_table(TRUE, rIn.slots).val

\* The part of C35 the read keeps: on the leader the value returned, and
\* the value emitted, is a mapping.
C35_LeaderReadIsMapping ==
    (rOut # NotRead /\ rIn.leader) =>
        /\ ~rOut.isnone
        /\ ~RequirerHandler(rIn.leader, rIn.slots).isnone

\* the batch of the first network of the table, then the candidate
PairBatch(tbl, cand) == <<Entry("a", tbl[1].net), Entry("c", cand)>>

\* C36: request_network of the leader, given a batch of two networks whose
\* prefixes are equal or nested, each acceptable on its own, raises the
\* conflict error and leaves the requirer's databag as it was, whether the
\* observed table is empty or holds another network.
C36_BatchSelfConflict ==
    ( /\ vOut # Pending /\ Len(vIn.table) >= 1
      /\ PassesAlone(vIn.cand)
      /\ Overlap(vIn.cand.network, vIn.table[1].net.network) ) =>
        \A observed \in {<<>>, Tail(vIn.table)} :
        \A old \in {Absent, json_dumps(observed)} :
            LET r == RequestNetwork(TRUE, <<json_dumps(observed)>>, old,
                                    PairBatch(vIn.table, vIn.cand))
            IN /\ r.exc = "ValueError"
               /\ r.msg = "This network has been defined in a previous entry."
               /\ ~r.written
               /\ r.bag = old

\* C36 witness: the candidate is acceptable on its own, its prefix lies
\* strictly inside the prefix of the first network of a table of two, and
\* the validator has rejected it against that table.
C36_Witness ==
    /\ vOut # Pending /\ vOut.exc = "ValueError"
    /\ Len(vIn.table) = 2
    /\ PassesAlone(vIn.cand)
    /\ AddrSet(vIn.cand.network) \subseteq AddrSet(vIn.table[1].net.network)
    /\ AddrSet(vIn.cand.network) # AddrSet(vIn.table[1].net.network)
    /\ ~RequestNetwork(TRUE, <<json_dumps(Tail(vIn.table))>>, Absent,
                       PairBatch(vIn.table, vIn.cand)).written

\* The converse of C36: a batch of two networks with disjoint prefixes,
\* disjoint from the observed table, is published.
C36_DisjointBatchPublished ==
    ( /\ vOut # Pending /\ Len(vIn.table) >= 1
      /\ vOut.exc = "none" ) =>
        RequestNetwork(TRUE, <<json_dumps(Tail(vIn.table))>>, Absent,
                       PairBatch(vIn.table, vIn.cand)).written

\* the provider has published to every related peer the table of the
\* proposals as they are
Settled ==
    LET r == Provides_get_routing_table(relations, reqBag)
    IN r.exc = "none" /\ WrittenToAll(relations, provBag, r.val)

\* after request_network of p's leader has published batch b, the next pass
\* completes and its table holds every entry of b
PassAccepts(p, b) ==
    LET r == RequestNetwork(TRUE, Slots(p), reqBag[p], b)
        h == ProviderHandler(TRUE, relations, [reqBag EXCEPT ![p] = r.bag], provBag)
    IN r.written => (h.exc = "none" /\ Entries(b) \subseteq Entries(h.table))

\* C37: when the published table is the table of the current proposals and
\* request_network of a peer's leader succeeds, the next pass of the
\* provider accepts every entry of the batch, also when a name of the batch
\* is the name of another peer's entry in the observed table.
C37_ProposeReconcileAgree ==
    Settled => \A p \in Peers : \A b \in Batches : Joined(p) => PassAccepts(p, b)

\* C37 for batches whose names are not empty
C37_NamedBatches ==
    Settled =>
        \A p \in Peers : \A b \in Batches :
            (Joined(p) /\ "" \notin DictKeys(b)) => PassAccepts(p, b)

\* The part of C37 that holds: batches whose names are not empty and are
\* not used by an entry another peer proposes.
C37_OwnNames ==
    Settled =>
        \A p \in Peers : \A b \in Batches :
            ( /\ Joined(p) /\ "" \notin DictKeys(b)
              /\ \A e \in ProposedByOthers(p) : e.name \notin DictKeys(b) )
                => PassAccepts(p, b)

\* C38: the table get_routing_table of a requirer returns, whatever the
\* provider databags of its relations hold and however many there are, has
\* no two distinct entries with equal or nested prefixes.
C38_ReadNoOverlap ==
    (rOut # NotRead /\ rOut.exc = "none") => NoOverlap(rOut.val)

\* C38 witness: the leader has read two relations whose databags hold
\* networks that overlap, and the table returned has one entry.
C38_Witness ==
    /\ rOut # NotRead /\ rOut.exc = "none" /\ rIn.leader
    /\ Len(rIn.slots) = 2
    /\ \A j \in 1..2 : rIn.slots[j].kind = "json" /\ Len(rIn.slots[j].val) >= 1
    /\ Overlap(rIn.slots[1].val[1].net.network, rIn.slots[2].val[1].net.network)
    /\ rIn.slots[1].val[1].name # rIn.slots[2].val[1].name
    /\ Len(rOut.val) = 1

\* the outcome h of a handler over the relations rels is all or nothing: a
\* failure leaves every provider databag as it was and emits nothing, and
\* otherwise every relation's databag holds the one table of the pass
AllOrNothing(h, rels) ==
    /\ h.exc # "none" => (h.bags = provBag /\ ~h.emitted)
    /\ h.exc = "none" => (h.bags = provBag \/ WrittenToAll(rels, h.bags, h.table))
    /\ \A q \in Peers : ~IsJoined(rels, q) => h.bags[q] = provBag[q]

\* C39: a provider handler, on the leader or not, for a change or for a
\* departure, either writes the table of the pass to the databag of every
\* relation it enumerated or writes to none; a pass whose fold raises
\* writes nothing and emits nothing.
C39_AllOrNothing ==
    /\ \A leader \in BOOLEAN :
          AllOrNothing(ProviderHandler(leader, relations, reqBag, provBag), relations)
    /\ \A p \in Peers : \A leader, listed \in BOOLEAN :
          Joined(p) =>
            AllOrNothing(DepartedHandler(leader, listed, p, relations, reqBag, provBag),
                         IF listed THEN relations
                         ELSE SelectSeq(relations, LAMBDA q : q # p))

\* C39 witness: two peers hold a published table of one network, the first
\* relation folds on its own, and the pass over both fails.
C39_Witness ==
    /\ Len(relations) = 2
    /\ provBag[relations[1]].kind = "json" /\ Len(provBag[relations[1]].val) = 1
    /\ provBag[relations[2]] = provBag[relations[1]]
    /\ Provides_get_routing_table(SubSeq(relations, 1, 1), reqBag).exc = "none"
    /\ Provides_get_routing_table(SubSeq(relations, 1, 1), reqBag).val
          # provBag[relations[1]].val
    /\ ProviderHandler(TRUE, relations, reqBag, provBag).exc = "RuntimeError"

====
